---------------------------- MODULE Spec2Model ----------------------------
(***************************************************************************)
(* The resumable, caching downloader of util/downloader/download.go.       *)
(*                                                                         *)
(* The cache directory is a map from path names to inodes; an open file    *)
(* (destFile) refers to its inode, not to its name, so a rename by one     *)
(* call does not detach the descriptor another call holds.  Every call of  *)
(* Download / DownloadToGuest runs in its own frame; one action is one     *)
(* file-system or network operation of the call.                           *)
(***************************************************************************)
EXTENDS Integers, Sequences, FiniteSets, TLC

(* ------------------------------ bounds -------------------------------- *)

\* longest response body a server sends
MaxBody == 2
\* capacity of the cache volume, in bytes per file: a write past it fails
MaxFile == 2
\* calls of Progress.Write by each writer of a shared Progress
MaxWrites == 2

(* --------------------------- the environment -------------------------- *)

\* the goroutines that call into the package
Procs == {"p1", "p2"}
\* the one that runs the sequential workloads
MainProc == "p1"

\* byte values a body is made of; 0 is what a hole in a file reads as
Bytes == {1, 2}

\* URLs are strings, modelled as sequences of characters
U1 == <<"h", "1">>
U2 == <<"h", "2">>
LocalURL == <<"/", "f">>
BadURL == <<"%">>
HttpURLs == {U1, U2}
AllURLs == HttpURLs \cup {LocalURL, BadURL}
\* the guest-side destination handed to DownloadToGuest
GuestFile == <<"/", "d">>

\* the resource each origin serves, and (as its companion) the digest it publishes
Origin(url) == IF url = U1 THEN <<1, 2>> ELSE <<2, 1>>
\* body of an error response
ErrBody == <<1>>

StatusPartialContent == 206
StatusRequestedRangeNotSatisfiable == 416
\* the statuses a server answers with: 200, 206, 404, 416
Statuses == {200, StatusPartialContent, 404, StatusRequestedRangeNotSatisfiable}

\* all byte strings of length at most n
RECURSIVE SeqsUpTo(_)
SeqsUpTo(n) ==
    IF n = 0 THEN {<<>>}
    ELSE LET S == SeqsUpTo(n - 1)
         IN  S \cup {Append(s, b) : s \in {t \in S : Len(t) = n - 1}, b \in Bytes}

Bodies == SeqsUpTo(MaxBody)

\* value of the Range header: NoRange when the header is not set, else the offset
NoRange == -1

Response(status, body, cl) ==
    [StatusCode |-> status, Body |-> body, ContentLength |-> cl]
NoResponse == Response(0, <<>>, 0)

\* Content-Length as net/http reports it: the body's length, or -1 when undeclared
Lengths(body) == {Len(body), -1}

Suffix(s, from) == SubSeq(s, from + 1, Len(s))

\* what an origin that serves Origin(url) faithfully, and declares the length of
\* what it sends, may answer to a GET
HonestResponses(url, range) ==
    LET full == {Response(200, Origin(url), Len(Origin(url)))}
        part ==
            IF range = NoRange THEN {}
            ELSE IF range < Len(Origin(url))
            THEN {Response(StatusPartialContent, Suffix(Origin(url), range),
                           Len(Origin(url)) - range)}
            ELSE {Response(StatusRequestedRangeNotSatisfiable, ErrBody, Len(ErrBody))}
        gone == {Response(404, ErrBody, Len(ErrBody))}
    IN  full \cup part \cup gone

\* what any server may answer
AnyResponses ==
    UNION {{Response(s, b, cl) : s \in Statuses, cl \in Lengths(b)} : b \in Bodies}


(* ------------------------------ the cache ----------------------------- *)

\* mutant of SHA256: the key is taken from the host alone
SHA256OfHost(url) == <<"sha256", <<url[1], "1">>>>

\* shautil.SHA256(url).String(): a collision-free tag of the URL string
SHA256(url) == <<"sha256", url>>

CacheFilename(url) == <<"caches", SHA256(url)>>

\* mutant of cacheDownloadingFileName: the download is written under the final name
cacheDownloadingFileNameFinal(url) == CacheFilename(url)

cacheDownloadingFileName(url) == Append(CacheFilename(url), ".downloading")

\* the name a file that failed validation is moved to
invalidFileName(url) == Append(cacheDownloadingFileName(url), ".invalid")

URLList == <<U1, U2, LocalURL, BadURL>>
ProcList == <<"p1", "p2">>

\* every name the cache directory can hold, in a fixed order
PathList ==
    [k \in 1..(3 * Len(URLList)) |->
        LET u == URLList[((k - 1) \div 3) + 1]
        IN  CASE (k - 1) % 3 = 0 -> CacheFilename(u)
              [] (k - 1) % 3 = 1 -> cacheDownloadingFileName(u)
              [] OTHER -> invalidFileName(u)]

Paths == {PathList[k] : k \in DOMAIN PathList}
PathNo(path) == CHOOSE k \in DOMAIN PathList : PathList[k] = path
ProcNo(p) == CHOOSE k \in DOMAIN ProcList : ProcList[k] = p

\* inodes: one per name, one per open descriptor; 0 is "no file".  The program never
\* sees an inode's number, so the numbering is kept canonical: a named inode carries
\* the number of its name, an unlinked one that is still open the number of the
\* first goroutine holding it.
Inodes == 1..(Len(PathList) + Len(ProcList))

VARIABLES
    fs,         \* the cache directory: path |-> inode, 0 when the name does not exist
    data,       \* inode |-> the file's bytes
    frame,      \* goroutine |-> the locals of the call it is running
    meter,      \* a Progress that several goroutines write to, and where it started
    writer      \* goroutine |-> the locals of its call of Write on that Progress

vars == <<fs, data, frame, meter, writer>>

Min(a, b) == IF a < b THEN a ELSE b
Max(a, b) == IF a > b THEN a ELSE b

strings_HasPrefix(s, c) == Len(s) > 0 /\ s[1] = c

\* url.Parse, as far as http.NewRequest depends on it: a stray "%" is an invalid escape
ValidURL(url) == ~strings_HasPrefix(url, "%")

Closed == [ino |-> 0, off |-> 0]

\* newProgress(logger, total, current): the counter, its mutex (free), lastReport
\* (the zero time), and with them the progress line now on the terminal (none yet)
newProgress(total, current) ==
    [Total |-> total, Current |-> current, mu |-> "", lastReport |-> "zero", out |-> <<>>]

\* a name of the cache directory as a call finds it: whether it exists, and its bytes
NoFile == [exists |-> FALSE, bytes |-> <<>>]
File(path) ==
    IF path \notin DOMAIN fs \/ fs[path] = 0 THEN NoFile
    ELSE [exists |-> TRUE, bytes |-> data[fs[path]]]
NoFiles == [committed |-> NoFile, inProgress |-> NoFile, invalid |-> NoFile]

\* the three files of a URL's cache key
Snapshot(url) ==
    [committed |-> File(<<"caches", SHA256(url)>>),
     inProgress |-> File(<<"caches", SHA256(url), ".downloading">>),
     invalid |-> File(<<"caches", SHA256(url), ".downloading", ".invalid">>)]

ZeroFrame ==
    [pc |-> "idle", entry |-> "none", r |-> [URL |-> <<>>, SHA |-> FALSE],
     destFile |-> Closed, currentSize |-> 0, Range |-> NoRange, resp |-> NoResponse,
     nread |-> 0, progress |-> newProgress(0, 0),
     cacheFile |-> <<>>, err |-> "nil", ret |-> "nil", cp |-> <<>>,
     \* what the call found, and what it has done so far
     before |-> NoFiles, prior |-> <<>>, requests |-> 0, validations |-> 0, sumErr |-> "none",
     written |-> 0, quarantined |-> FALSE]

\* the number of the first of the goroutines ps
FirstNo(ps) == CHOOSE k \in {ProcNo(q) : q \in ps} : \A q \in ps : k <= ProcNo(q)

\* destFile.Close() by p, in a state with frames fr and file contents d: the bytes of
\* an unlinked inode go with its last descriptor
AfterClose(fr, d, p) ==
    LET i == fr[p].destFile.ino
        rest == {q \in Procs \ {p} : fr[q].destFile.ino = i}
        shut == [fr EXCEPT ![p].destFile = Closed]
    IN  IF i <= Len(PathList) THEN [fr |-> shut, d |-> d]
        ELSE IF rest = {} THEN [fr |-> shut, d |-> [d EXCEPT ![i] = <<>>]]
        ELSE LET m == Len(PathList) + FirstNo(rest)
             IN  [fr |-> [q \in Procs |->
                            IF q \in rest THEN [shut[q] EXCEPT !.destFile.ino = m]
                            ELSE shut[q]],
                  d |-> [d EXCEPT ![i] = <<>>, ![m] = d[i]]]

\* os.Rename(old, new): the new name takes the old name's file, replacing what it
\* named; descriptors stay with their files
AfterRename(f, fr, d, old, new) ==
    LET o == f[old]
        n == PathNo(new)
        losers == {q \in Procs : f[new] # 0 /\ fr[q].destFile.ino = n}
        orphan == Len(PathList) + FirstNo(losers)
    IN  [fs |-> [f EXCEPT ![new] = n, ![old] = 0],
         fr |-> [q \in Procs |->
                   IF fr[q].destFile.ino = 0 THEN fr[q]
                   ELSE IF fr[q].destFile.ino = o THEN [fr[q] EXCEPT !.destFile.ino = n]
                   ELSE IF q \in losers THEN [fr[q] EXCEPT !.destFile.ino = orphan]
                   ELSE fr[q]],
         d |-> [j \in Inodes |->
                  IF j = n THEN d[o]
                  ELSE IF j = o THEN <<>>
                  ELSE IF losers # {} /\ j = orphan THEN d[n]
                  ELSE d[j]]]

\* the state after a step of p that leaves directory f, frames fr and contents d and
\* in which p's frame becomes g
Result(p, g, f, fr, d) ==
    LET c == IF g.destFile.ino = 0 THEN AfterClose(fr, d, p) ELSE [fr |-> fr, d |-> d]
    IN  /\ fs' = f
        /\ frame' = [c.fr EXCEPT ![p] = g]
        /\ data' = c.d
        /\ UNCHANGED <<meter, writer>>

\* os.File.Write of chunk at offset off: holes read as 0
WriteAt(content, off, chunk) ==
    [i \in 1..Max(Len(content), off + Len(chunk)) |->
        IF i > off /\ i <= off + Len(chunk) THEN chunk[i - off]
        ELSE IF i <= Len(content) THEN content[i] ELSE 0]

\* mutants of hasCache: the cache is never consulted; the in-progress file counts
hasCacheNever(url) == FALSE
hasCacheDownloading(url) == fs[Append(CacheFilename(url), ".downloading")] # 0

hasCache(url) == fs[CacheFilename(url)] # 0


(* ----------------------- Download, DownloadToGuest -------------------- *)

Request(url, sha) == [URL |-> url, SHA |-> sha]

\* the outcomes of guest.RunQuiet("cp", ...)
CopyResults == {"nil", "cp failed"}

\* one run of guest.RunQuiet("cp", src, dst), and the error it returned
RunQuiet(src, dst, res) == [src |-> src, dst |-> dst, err |-> res]

Idle(p) == frame[p].pc = "idle"

\* mutant of DownloadReturn: DownloadToGuest goes on to the copy whatever Download
\* returned
DownloadReturnUnchecked(f, e) ==
    LET g == [f EXCEPT !.destFile = Closed, !.err = e]
    IN  IF f.entry = "DownloadToGuest"
        THEN [g EXCEPT !.cacheFile = IF e = "nil" THEN CacheFilename(f.r.URL) ELSE <<>>,
                       !.pc = "cp"]
        ELSE IF e # "nil" THEN [g EXCEPT !.ret = e, !.pc = "return"]
        ELSE [g EXCEPT !.cacheFile = CacheFilename(f.r.URL), !.pc = "return"]

\* Download returns: the error wrapped with the URL, or the cache file's name.
\* destFile is closed on every return from downloadFile (the deferred Close).
DownloadReturn(f, e) ==
    LET g == [f EXCEPT !.destFile = Closed, !.err = e]
    IN  IF e # "nil"
        THEN [g EXCEPT !.ret = e, !.pc = "return"]
        ELSE IF f.entry = "DownloadToGuest"
        THEN [g EXCEPT !.cacheFile = CacheFilename(f.r.URL), !.pc = "cp"]
        ELSE [g EXCEPT !.cacheFile = CacheFilename(f.r.URL), !.pc = "return"]

\* a step of p that leaves the cache as it is
Local(p, f) == Result(p, f, fs, frame, data)

\* Download(host, log, r), for one of the requests rs: a new downloader, then the
\* cache check
Download(p, rs) ==
    /\ Idle(p)
    /\ \E r \in rs :
         Local(p, [ZeroFrame EXCEPT !.pc = "hasCache", !.entry = "Download", !.r = r,
                                    !.before = Snapshot(r.URL)])

\* mutant of DownloadToGuest: a local path is downloaded like any URL
DownloadToGuestNoShortcut(p, rs) ==
    /\ Idle(p)
    /\ \E r \in rs :
         Local(p, [ZeroFrame EXCEPT !.pc = "hasCache", !.entry = "DownloadToGuest", !.r = r,
                                    !.before = Snapshot(r.URL)])

\* DownloadToGuest(host, guest, log, r, filename), for one of the requests rs
DownloadToGuest(p, rs) ==
    /\ Idle(p)
    /\ \E r \in rs :
         IF strings_HasPrefix(r.URL, "/")
         THEN \E res \in CopyResults :
                Local(p, [ZeroFrame EXCEPT !.pc = "return", !.entry = "DownloadToGuest",
                                           !.r = r, !.ret = res,
                                           !.cp = <<RunQuiet(r.URL, GuestFile, res)>>])
         ELSE Local(p, [ZeroFrame EXCEPT !.pc = "hasCache",
                                         !.entry = "DownloadToGuest", !.r = r,
                                         !.before = Snapshot(r.URL)])

\* if !d.hasCache(r.URL) { ... }; return CacheFilename(r.URL), nil
CheckCache(p) ==
    /\ frame[p].pc = "hasCache"
    /\ IF hasCache(frame[p].r.URL)
       THEN Local(p, DownloadReturn(frame[p], "nil"))
       ELSE Local(p, [frame[p] EXCEPT !.pc = "MkdirAll"])

\* return guest.RunQuiet("cp", cacheFile, filename)
GuestCopy(p) ==
    /\ frame[p].pc = "cp"
    /\ \E res \in CopyResults :
         Local(p, [frame[p] EXCEPT !.pc = "return", !.ret = res,
                                   !.cp = Append(@, RunQuiet(frame[p].cacheFile, GuestFile,
                                                             res))])

\* the call is over: its frame is gone, the goroutine is free for its next call
Exit(p) ==
    /\ frame[p].pc = "return"
    /\ Local(p, ZeroFrame)

(* ----------------------------- downloadFile --------------------------- *)

\* os.MkdirAll(filepath.Dir(cacheDownloadingFilename), 0755)
MkdirAll(p) ==
    /\ frame[p].pc = "MkdirAll"
    /\ \/ Local(p, [frame[p] EXCEPT !.pc = "OpenFile"])
       \/ Local(p, DownloadReturn(frame[p], "error preparing cache dir"))

\* mutant of OpenFile: the file is opened with O_TRUNC
OpenFileTrunc(p) ==
    /\ frame[p].pc = "OpenFile"
    /\ \/ LET name == cacheDownloadingFileName(frame[p].r.URL)
              ino == IF fs[name] # 0 THEN fs[name] ELSE PathNo(name)
          IN  Result(p, [frame[p] EXCEPT !.pc = "Stat",
                                         !.destFile = [ino |-> ino, off |-> 0]],
                     [fs EXCEPT ![name] = ino], frame, [data EXCEPT ![ino] = <<>>])
       \/ Local(p, DownloadReturn(frame[p], "error creating destination file"))

\* os.OpenFile(cacheDownloadingFilename, os.O_CREATE|os.O_WRONLY, 0644)
OpenFile(p) ==
    /\ frame[p].pc = "OpenFile"
    /\ \/ LET name == cacheDownloadingFileName(frame[p].r.URL)
              ino == IF fs[name] # 0 THEN fs[name] ELSE PathNo(name)
          IN  Result(p, [frame[p] EXCEPT !.pc = "Stat",
                                         !.destFile = [ino |-> ino, off |-> 0]],
                     [fs EXCEPT ![name] = ino], frame, data)
       \/ Local(p, DownloadReturn(frame[p], "error creating destination file"))

\* stat, err := destFile.Stat(); currentSize := stat.Size()
Stat(p) ==
    /\ frame[p].pc = "Stat"
    /\ \/ Local(p, [frame[p] EXCEPT !.pc = "Do",
                                    !.currentSize = Len(data[frame[p].destFile.ino]),
                                    !.prior = data[frame[p].destFile.ino]])
       \/ Local(p, DownloadReturn(frame[p], "error getting file stat"))

\* the Range header of the request: set only when currentSize > 0
RangeHeader(currentSize) == IF currentSize > 0 THEN currentSize ELSE NoRange

\* the responses client.Do can bring back; none for a URL that is no http URL
Responses(server, url, range) ==
    IF url \notin HttpURLs THEN {}
    ELSE IF server = "honest" THEN HonestResponses(url, range)
    ELSE AnyResponses

\* http.NewRequest("GET", r.URL, nil), the Range header, client.Do(req); the origins
\* are "honest" (they serve Origin(url)) or "any" (they serve anything)
Do(p, server) ==
    /\ frame[p].pc = "Do"
    /\ IF ~ValidURL(frame[p].r.URL)
       THEN Local(p, DownloadReturn(frame[p], "error creating request"))
       ELSE LET range == RangeHeader(frame[p].currentSize)
                sent == [frame[p] EXCEPT !.Range = range, !.requests = @ + 1]
            IN  \/ \E resp \in Responses(server, frame[p].r.URL, range) :
                     Local(p, [sent EXCEPT !.pc = "status", !.resp = resp])
                \/ Local(p, DownloadReturn(sent, "error during download"))


\* a step of p that changes the bytes of the file destFile refers to
Store(p, f, content) ==
    Result(p, f, fs, frame, [data EXCEPT ![frame[p].destFile.ino] = content])

\* mutant of StatusChecked: only the server errors are refused
StatusCheckedLax(f) ==
    IF f.resp.StatusCode < 200 \/ f.resp.StatusCode >= 500
    THEN DownloadReturn(f, "unexpected status code")
    ELSE [f EXCEPT !.pc = "Seek"]

\* mutant of StatusChecked: after the reset a 416 goes on like a 2xx
StatusCheckedRestart(f) ==
    IF /\ f.resp.StatusCode # StatusRequestedRangeNotSatisfiable
       /\ f.resp.StatusCode < 200 \/ f.resp.StatusCode >= 300
    THEN DownloadReturn(f, "unexpected status code")
    ELSE [f EXCEPT !.pc = "Seek"]

\* the status check: a status outside [200,300) ends the call
StatusChecked(f) ==
    IF f.resp.StatusCode < 200 \/ f.resp.StatusCode >= 300
    THEN DownloadReturn(f, "unexpected status code")
    ELSE [f EXCEPT !.pc = "Seek"]

\* mutant of CheckStatus: a 416 is refused like any other status, nothing truncated
CheckStatusNoTruncate(p) ==
    /\ frame[p].pc = "status"
    /\ Local(p, StatusChecked(frame[p]))

\* if resp.StatusCode == 416 { destFile.Truncate(0); currentSize = 0 }, then the check
CheckStatus(p) ==
    /\ frame[p].pc = "status"
    /\ IF frame[p].resp.StatusCode = StatusRequestedRangeNotSatisfiable
       THEN \/ Store(p, StatusChecked([frame[p] EXCEPT !.currentSize = 0]), <<>>)
            \/ Local(p, DownloadReturn(frame[p], "error truncating file"))
       ELSE Local(p, StatusChecked(frame[p]))

\* mutants of SeekOffset: the cursor always at the start, always at the end
SeekOffsetStart(status, size) == 0
SeekOffsetEnd(status, size) == size

\* where the write cursor goes: the end of the file for a 206, its start otherwise
SeekOffset(status, size) == IF status = StatusPartialContent THEN size ELSE 0

\* destFile.Seek(0, io.SeekEnd) or destFile.Seek(0, io.SeekStart), then newProgress
Seek(p) ==
    /\ frame[p].pc = "Seek"
    /\ LET f == frame[p]
           off == SeekOffset(f.resp.StatusCode, Len(data[f.destFile.ino]))
       IN  \/ Local(p, [f EXCEPT !.pc = "Copy", !.destFile.off = off,
                                 !.progress = newProgress(f.resp.ContentLength + f.currentSize,
                                                          f.currentSize)])
           \/ Local(p, DownloadReturn(f,
                    IF f.resp.StatusCode = StatusPartialContent
                    THEN "error seeking to end of file"
                    ELSE "error seeking to start of file"))

\* time.Second / 2, in quarters of a second
HalfSecond == 2

\* what time.Since(p.lastReport) can be: just under half a second or at least that,
\* and at least that when nothing has been reported (lastReport is the zero time)
TimeSince(lastReport) ==
    IF lastReport = "zero" THEN {HalfSecond} ELSE {HalfSecond - 1, HalfSecond}

\* fmt.Sprintf("%.2f%%", float64(current)*100/float64(total)): whole percents, the
\* two decimals (rounded), the percent sign
Sprintf2f(current, total) ==
    LET h == (2 * 10000 * current + total) \div (2 * total)
    IN  <<h \div 100, ".", (h % 100) \div 10, h % 10, "%">>

\* terminal.Progress(current, total): blank when the total is not positive
terminal_Progress(current, total) ==
    IF total <= 0 THEN <<>> ELSE Sprintf2f(current, total)

\* the throttle check and the report of Progress.Write, since being the time since
\* the last report: the line "\rdownloading ... <percentage> " replaces the one on
\* the terminal
Report(progress, since) ==
    IF since < HalfSecond THEN progress
    ELSE [progress EXCEPT !.lastReport = "set",
                          !.out = <<terminal_Progress(progress.Current, progress.Total)>>]

\* Progress.Write(b) with n = len(b): the counter grows by n, then the report
ProgressWrite(progress, n, since) ==
    Report([progress EXCEPT !.Current = @ + n], since)

\* the pace of a transfer: its chunks arrive half a second apart, so that every write
\* reports and every line a transfer can print is printed
ChunkPace(lastReport) == {HalfSecond}

\* mutant of Copy: the error of io.Copy is not looked at
CopyUnchecked(p) ==
    /\ frame[p].pc = "Copy"
    /\ LET f == frame[p]
           left == Len(f.resp.Body) - f.nread
       IN  \/ \E n \in 1..Min(left, MaxFile - f.destFile.off),
                 since \in ChunkPace(f.progress.lastReport) :
                Store(p, [f EXCEPT !.nread = @ + n,
                                   !.progress = ProgressWrite(@, n, since),
                                   !.destFile.off = @ + n, !.written = @ + n],
                      WriteAt(data[f.destFile.ino], f.destFile.off,
                              SubSeq(f.resp.Body, f.nread + 1, f.nread + n)))
           \/ Local(p, [f EXCEPT !.pc = IF f.r.SHA THEN "validate" ELSE "Rename"])

\* io.Copy(destFile, io.TeeReader(resp.Body, progress)): one chunk, or the end
Copy(p) ==
    /\ frame[p].pc = "Copy"
    /\ LET f == frame[p]
           left == Len(f.resp.Body) - f.nread
       IN  \/ \* a chunk is read, counted, and written at the cursor
              \E n \in 1..left, since \in ChunkPace(f.progress.lastReport) :
                LET chunk == SubSeq(f.resp.Body, f.nread + 1, f.nread + n)
                    fits == Min(n, MaxFile - f.destFile.off)
                    got == [f EXCEPT !.nread = @ + n,
                                     !.progress = ProgressWrite(@, n, since)]
                IN  \/ /\ fits = n
                       /\ Store(p, [got EXCEPT !.destFile.off = @ + n, !.written = @ + n],
                                WriteAt(data[f.destFile.ino], f.destFile.off, chunk))
                    \/ \* the volume is full: what fits is written, the write fails
                       /\ fits < n
                       /\ Store(p, DownloadReturn([got EXCEPT !.written = @ + fits],
                                                  "error writing to file"),
                                IF fits > 0
                                THEN WriteAt(data[f.destFile.ino], f.destFile.off,
                                             SubSeq(chunk, 1, fits))
                                ELSE data[f.destFile.ino])
                    \/ \* the write fails
                       Local(p, DownloadReturn(got, "error writing to file"))
           \/ \* the read fails
              Local(p, DownloadReturn(f, "error writing to file"))
           \/ \* io.EOF
              /\ left = 0
              /\ Local(p, [f EXCEPT !.pc = IF f.r.SHA THEN "validate" ELSE "Rename"])

\* a digest that tells any two contents apart
Digest(content) == <<"digest", content>>

\* SHA.validateDownload(host, url, filename): "nil" only when the checksum resource
\* is fetched and parsed and its digest is that of the file's bytes
validateDownload(url, filename) ==
    {"checksum fetch failed", "checksum parse failed"} \cup
    (IF fs[filename] # 0 /\ Digest(data[fs[filename]]) = Digest(Origin(url))
     THEN {"nil"} ELSE {"checksum mismatch"})

\* mutant of Validate: the validation error is dropped
ValidateIgnored(p) ==
    /\ frame[p].pc = "validate"
    /\ \E e \in validateDownload(frame[p].r.URL, cacheDownloadingFileName(frame[p].r.URL)) :
         Local(p, [frame[p] EXCEPT !.validations = @ + 1, !.sumErr = e, !.pc = "Rename"])

\* if r.SHA != nil { if err := r.SHA.validateDownload(...); err != nil { ... } }
Validate(p) ==
    /\ frame[p].pc = "validate"
    /\ \E e \in validateDownload(frame[p].r.URL, cacheDownloadingFileName(frame[p].r.URL)) :
         Local(p, [frame[p] EXCEPT !.validations = @ + 1, !.sumErr = e,
                                   !.pc = IF e = "nil" THEN "Rename" ELSE "invalid"])

\* a step of p that renames old to new
Move(p, f, old, new) ==
    /\ fs[old] # 0
    /\ LET m == AfterRename(fs, frame, data, old, new)
       IN  Result(p, f, m.fs, m.fr, m.d)

\* _ = os.Rename(cacheDownloadingFilename, cacheDownloadingFilename+".invalid")
Quarantine(p) ==
    /\ frame[p].pc = "invalid"
    /\ LET f == DownloadReturn(frame[p], "error validating SHA sum")
       IN  \/ Move(p, [f EXCEPT !.quarantined = TRUE],
                   cacheDownloadingFileName(frame[p].r.URL),
                   invalidFileName(frame[p].r.URL))
           \/ Local(p, f)

\* the name the finished download is given
CommitName(url) == CacheFilename(url)

\* return os.Rename(cacheDownloadingFilename, CacheFilename(r.URL))
Commit(p) ==
    /\ frame[p].pc = "Rename"
    /\ \/ Move(p, DownloadReturn(frame[p], "nil"),
                cacheDownloadingFileName(frame[p].r.URL), CommitName(frame[p].r.URL))
       \/ Local(p, DownloadReturn(frame[p], "rename failed"))

(* --------------------------- specifications --------------------------- *)

\* a Progress started at offset current
Meter(total, current) == [p |-> newProgress(total, current), start |-> current]

ZeroWriter ==
    [pc |-> "idle", n |-> 0, loaded |-> 0, ret |-> <<>>,
     \* what its calls have done so far
     calls |-> 0, sum |-> 0]

\* the cache is empty, no call is under way
Empty ==
    /\ fs = [path \in Paths |-> 0]
    /\ data = [i \in Inodes |-> <<>>]
    /\ frame = [p \in Procs |-> ZeroFrame]
    /\ writer = [p \in Procs |-> ZeroWriter]

Init ==
    /\ Empty
    /\ meter = Meter(0, 0)

(* ---------------------- Progress.Write, step by step ------------------- *)

\* a step of p in Write that leaves the Progress as pr and p's locals as w
Wrote(p, pr, w) ==
    /\ meter' = [meter EXCEPT !.p = pr]
    /\ writer' = [writer EXCEPT ![p] = w]
    /\ UNCHANGED <<fs, data, frame>>

\* p.Write(b) is called: n := len(b)
WriteCall(p) ==
    /\ writer[p].pc = "idle" /\ writer[p].calls < MaxWrites
    /\ \E b \in Bodies :
         Wrote(p, meter.p, [writer[p] EXCEPT !.pc = "Lock", !.n = Len(b), !.ret = <<>>])

\* mutant of WriteLock: the mutex is not waited for
WriteLockNone(p) ==
    /\ writer[p].pc = "Lock"
    /\ Wrote(p, [meter.p EXCEPT !.mu = p], [writer[p] EXCEPT !.pc = "Load"])

\* p.mu.Lock()
WriteLock(p) ==
    /\ writer[p].pc = "Lock"
    /\ meter.p.mu = ""
    /\ Wrote(p, [meter.p EXCEPT !.mu = p], [writer[p] EXCEPT !.pc = "Load"])

\* p.Current += int64(n): the load ...
WriteLoad(p) ==
    /\ writer[p].pc = "Load"
    /\ Wrote(p, meter.p, [writer[p] EXCEPT !.pc = "Store", !.loaded = meter.p.Current])

\* ... and the store
WriteStore(p) ==
    /\ writer[p].pc = "Store"
    /\ Wrote(p, [meter.p EXCEPT !.Current = writer[p].loaded + writer[p].n],
             [writer[p] EXCEPT !.pc = "Report"])

\* the throttle check, the report, return n, nil, and the deferred p.mu.Unlock()
WriteReport(p) ==
    /\ writer[p].pc = "Report"
    /\ \E since \in TimeSince(meter.p.lastReport) :
         Wrote(p, [Report(meter.p, since) EXCEPT !.mu = ""],
               [writer[p] EXCEPT !.pc = "idle", !.loaded = 0,
                                 !.ret = [n |-> writer[p].n, err |-> "nil"],
                                 !.calls = @ + 1, !.sum = @ + writer[p].n])

Write(p) ==
    \/ WriteCall(p)
    \/ WriteLock(p)
    \/ WriteLoad(p)
    \/ WriteStore(p)
    \/ WriteReport(p)

\* a step of goroutine p, whose calls of Download carry the requests rs and whose
\* calls of DownloadToGuest the requests gs, against the origins server
Step(p, rs, gs, server) ==
    \/ Download(p, rs)
    \/ DownloadToGuest(p, gs)
    \/ CheckCache(p)
    \/ GuestCopy(p)
    \/ Exit(p)
    \/ MkdirAll(p)
    \/ OpenFile(p)
    \/ Stat(p)
    \/ Do(p, server)
    \/ CheckStatus(p)
    \/ Seek(p)
    \/ Copy(p)
    \/ Validate(p)
    \/ Quarantine(p)
    \/ Commit(p)

\* one caller, any server: every call returns before the next one starts.  Download
\* is called without a checksum reference, DownloadToGuest (which calls Download)
\* with one
SeqRequests ==
    {Request(U1, FALSE), Request(LocalURL, FALSE), Request(BadURL, FALSE)}
SeqGuestRequests ==
    {Request(U1, TRUE), Request(LocalURL, FALSE)}
NextSeq == Step(MainProc, SeqRequests, SeqGuestRequests, "any")
SpecSeq == Init /\ [][NextSeq]_vars

\* a step of a call of Download that carries no checksum reference
PlainStep(p, rs, server) ==
    \/ Download(p, rs)
    \/ CheckCache(p)
    \/ Exit(p)
    \/ MkdirAll(p)
    \/ OpenFile(p)
    \/ Stat(p)
    \/ Do(p, server)
    \/ CheckStatus(p)
    \/ Seek(p)
    \/ Copy(p)
    \/ Commit(p)

\* two callers of one URL whose origin serves it faithfully, their steps interleaved
ConcRequests == {Request(U1, FALSE)}
NextConc == \E p \in Procs : PlainStep(p, ConcRequests, "honest")
SpecConc == Init /\ [][NextConc]_vars

\* two callers, each with a URL of its own and a checksum reference, their steps
\* interleaved; the origins serve the resources faithfully
PairRequests(p) == {Request(IF p = MainProc THEN U1 ELSE U2, TRUE)}
NextPair == \E p \in Procs : Step(p, PairRequests(p), PairRequests(p), "honest")
SpecPair == Init /\ [][NextPair]_vars

\* a Progress made as downloadFile makes it, for a response of unknown or declared
\* length and an in-progress file that is empty or full, written to by two goroutines
InitMeter ==
    /\ Empty
    /\ \E cl \in {-1, MaxBody}, currentSize \in {0, MaxFile} :
         meter = Meter(cl + currentSize, currentSize)
NextMeter == \E p \in Procs : Write(p)
SpecMeter == InitMeter /\ [][NextMeter]_vars


(* ------------------------------ properties ---------------------------- *)

Exists(path) == fs[path] # 0
\* the bytes under a name; nothing when the name does not exist
Content(path) == IF fs[path] = 0 THEN <<>> ELSE data[fs[path]]
Committed(url) == Exists(<<"caches", SHA256(url)>>)
CommittedBytes(url) == Content(<<"caches", SHA256(url)>>)

\* p's call of Download has returned: an error, or the cache file's name
Returned(p) ==
    /\ frame[p].pc \in {"return", "cp"}
    /\ frame[p].err # "nil" \/ frame[p].cacheFile # <<>>
Failed(p) == Returned(p) /\ frame[p].err # "nil"
\* ... with success, after a transfer of its own
Transferred(p) == Returned(p) /\ frame[p].err = "nil" /\ frame[p].requests > 0
\* ... with success, from the cache
Hit(p) == Returned(p) /\ frame[p].err = "nil" /\ frame[p].requests = 0
\* p's step is the commit rename, and it succeeds
Commits(p) ==
    frame[p].pc = "Rename" /\ frame'[p].pc \in {"return", "cp"} /\ frame'[p].err = "nil"

\* C1: with one caller, a call that returns an error leaves the committed name
\* absent, and the committed name comes into existence only by the rename of a call
\* that returns success, holding every byte of the body that call received.
C1_AtomicCommit ==
    [][/\ \A p \in Procs : Failed(p)' => ~Committed(frame[p].r.URL)'
       /\ \A u \in AllURLs :
            (~Committed(u) /\ Committed(u)') =>
                \E p \in Procs :
                    /\ Commits(p) /\ frame[p].r.URL = u
                    /\ frame[p].nread = Len(frame[p].resp.Body)
                    /\ frame[p].written = Len(frame[p].resp.Body)
                    /\ CommittedBytes(u)' = Content(Append(<<"caches", SHA256(u)>>,
                                                           ".downloading"))
                    /\ Len(CommittedBytes(u)') >= Len(frame[p].resp.Body)]_vars

\* a call failed in mid-stream: bytes are in the in-progress file, none is committed
C1_Witness ==
    \E p \in Procs :
        /\ Failed(p) /\ frame[p].err = "error writing to file"
        /\ frame[p].written > 0 /\ frame[p].written < Len(frame[p].resp.Body)
        /\ Exists(cacheDownloadingFileName(frame[p].r.URL))
        /\ ~Committed(frame[p].r.URL)

\* C2: with two callers of one URL, a committed file holds the origin's resource,
\* and its bytes do not change once it is committed.
C2_CommittedIsOrigin ==
    [][\A u \in HttpURLs :
        /\ Committed(u)' => CommittedBytes(u)' = Origin(u)
        /\ Committed(u) => Committed(u)' /\ CommittedBytes(u)' = CommittedBytes(u)]_vars

\* the length the server declared for the file p's transfer produced
DeclaredLength(f) ==
    IF f.resp.StatusCode = StatusPartialContent
    THEN f.currentSize + f.resp.ContentLength
    ELSE f.resp.ContentLength

\* C3: a committed file is as long as the server declared the resource to be in the
\* fetch that produced it.
C3_CommittedLength ==
    \A p \in Procs :
        (Transferred(p) /\ frame[p].resp.ContentLength >= 0) =>
            Len(CommittedBytes(frame[p].r.URL)) = DeclaredLength(frame[p])

\* C4: once a URL is committed it stays committed, and a call for it returns the
\* committed name with no request and no validation, changing no file; a call that
\* succeeds leaves the URL committed and has sent at most one request.
C4_IdempotentHit ==
    [][\A p \in Procs :
        LET u == frame[p].r.URL
        IN  /\ (frame[p].pc # "idle" /\ Committed(u)) =>
                  /\ UNCHANGED <<fs, data>>
                  /\ frame[p].pc = "hasCache" =>
                        /\ Hit(p)'
                        /\ frame'[p].cacheFile = <<"caches", SHA256(u)>>
                        /\ frame'[p].validations = 0
                  /\ frame'[p].pc # "idle" =>
                        /\ frame'[p].requests = frame[p].requests
                        /\ frame'[p].validations = frame[p].validations
            /\ (Returned(p) /\ frame[p].err = "nil")' =>
                  (Committed(frame[p].r.URL) /\ frame[p].requests <= 1)']_vars

\* a second call returned from the cache while the first call's file is committed
C4_Witness ==
    \E p \in Procs :
        /\ Hit(p) /\ frame[p].pc = "return" /\ frame[p].r.SHA
        /\ CommittedBytes(frame[p].r.URL) # <<>>

\* C5: a 206 answer to a request that resumed from a file of L > 0 bytes (sent with
\* Range: bytes=L-) commits those L bytes followed by the body.
C5_Resume ==
    \A p \in Procs :
        (/\ Transferred(p)
         /\ frame[p].resp.StatusCode = StatusPartialContent
         /\ frame[p].currentSize > 0) =>
            /\ frame[p].Range = frame[p].currentSize
            /\ Len(frame[p].prior) = frame[p].currentSize
            /\ CommittedBytes(frame[p].r.URL) = frame[p].prior \o frame[p].resp.Body

C5_Witness ==
    \E p \in Procs :
        /\ Transferred(p)
        /\ frame[p].resp.StatusCode = StatusPartialContent
        /\ frame[p].currentSize > 0
        /\ frame[p].resp.Body # <<>>
        /\ frame[p].resp.Body[1] # frame[p].prior[1]


\* C6: a 2xx answer other than 206 to a request that resumed from a file of L > 0
\* bytes, with a body F of at least L bytes, commits exactly F.
C6_RangeUnsupported ==
    \A p \in Procs :
        (/\ Transferred(p)
         /\ frame[p].resp.StatusCode # StatusPartialContent
         /\ frame[p].currentSize > 0
         /\ Len(frame[p].resp.Body) >= frame[p].currentSize) =>
            /\ frame[p].Range = frame[p].currentSize
            /\ CommittedBytes(frame[p].r.URL) = frame[p].resp.Body

C6_Witness ==
    \E p \in Procs :
        /\ Transferred(p)
        /\ frame[p].resp.StatusCode = 200
        /\ frame[p].currentSize > 0
        /\ Len(frame[p].resp.Body) >= frame[p].currentSize
        /\ frame[p].resp.Body[1] # frame[p].prior[1]

\* the bytes p's transfer leaves in the file it wrote from its first byte to its last
Downloaded(f) ==
    IF f.resp.StatusCode = StatusPartialContent THEN f.prior \o f.resp.Body
    ELSE f.resp.Body \o SubSeq(f.prior, Len(f.resp.Body) + 1, Len(f.prior))

\* C7: a call whose checksum validation fails commits nothing and returns the
\* validation error, whether or not the quarantine rename succeeded; when it did,
\* the in-progress name is gone and the quarantine name holds the downloaded bytes.
\* A call with a checksum reference commits only after its validation passed.
C7_ChecksumEnforced ==
    \A p \in Procs :
        LET f == frame[p]
            inProgress == Append(<<"caches", SHA256(f.r.URL)>>, ".downloading")
        IN  /\ f.sumErr \notin {"none", "nil"} =>
                 /\ ~Committed(f.r.URL)
                 /\ f.pc \in {"invalid", "return"}
                 /\ f.pc = "return" =>
                       /\ f.err = "error validating SHA sum" /\ f.ret = f.err
                       /\ f.quarantined =>
                             /\ ~Exists(inProgress)
                             /\ Exists(Append(inProgress, ".invalid"))
                             /\ Content(Append(inProgress, ".invalid")) = Downloaded(f)
                       /\ ~f.quarantined =>
                             /\ Exists(inProgress)
                             /\ Content(inProgress) = Downloaded(f)
            /\ (Transferred(p) /\ f.r.SHA) => (f.sumErr = "nil" /\ f.validations = 1)

C7_Witness ==
    \E p \in Procs :
        /\ frame[p].pc = "return" /\ frame[p].sumErr = "checksum mismatch"
        /\ frame[p].quarantined
        /\ Content(invalidFileName(frame[p].r.URL)) # <<>>

\* C8: a call for a URL whose committed name does not exist goes on to the transfer,
\* whatever exists under the in-progress and quarantine names; a call returns from
\* the cache only when the committed name existed.
C8_OnlyCommittedHits ==
    [][\A p \in Procs :
        /\ (frame[p].pc = "hasCache" /\ ~Committed(frame[p].r.URL)) =>
              (frame'[p].pc = "MkdirAll" /\ ~Returned(p)')
        /\ (Hit(p)' /\ ~Hit(p)) =>
              (frame[p].pc = "hasCache" /\ Committed(frame[p].r.URL))]_vars

\* the cache check has sent a call on to the transfer although the in-progress
\* and the quarantine file both exist
C8_Witness ==
    \E p \in Procs :
        /\ frame[p].pc = "MkdirAll"
        /\ ~Committed(frame[p].r.URL)
        /\ Exists(cacheDownloadingFileName(frame[p].r.URL))
        /\ Exists(invalidFileName(frame[p].r.URL))

C10_LocalPath ==
    [][\A p \in Procs :
        (/\ frame[p].pc = "idle" /\ frame'[p].pc # "idle"
         /\ frame'[p].entry = "DownloadToGuest"
         /\ frame'[p].r.URL[1] = "/") =>
            /\ frame'[p].pc = "return"
            /\ frame'[p].requests = 0
            /\ Len(frame'[p].cp) = 1
            /\ frame'[p].cp[1].src = frame'[p].r.URL
            /\ frame'[p].cp[1].dst = GuestFile
            /\ frame'[p].ret = frame'[p].cp[1].err
            /\ UNCHANGED <<fs, data>>]_vars

C10_Witness ==
    \E p \in Procs :
        /\ frame[p].pc = "return" /\ frame[p].entry = "DownloadToGuest"
        /\ frame[p].r.URL = LocalURL
        /\ frame[p].ret = "cp failed"
        /\ Exists(cacheDownloadingFileName(U1))


\* the in-progress name of a URL's cache key
InProgress(url) == <<"caches", SHA256(url), ".downloading">>
\* the quarantine name of a URL's cache key
Invalid(url) == <<"caches", SHA256(url), ".downloading", ".invalid">>

\* the in-progress bytes a call found, overlaid with the bytes it has written
Kept(f) ==
    LET got == SubSeq(f.resp.Body, 1, f.written)
        was == f.before.inProgress.bytes
    IN  IF f.resp.StatusCode = StatusPartialContent THEN was \o got
        ELSE got \o SubSeq(was, f.written + 1, Len(was))

\* p's call has failed, and not in its checksum validation
FailedOther(p) == Failed(p) /\ frame[p].sumErr \in {"none", "nil"}

\* after p's failed call the in-progress file is there (if it was, or the call got
\* as far as creating it), no shorter than the call found it, with the bytes the
\* call streamed
Survives(p) ==
    LET f == frame[p]
    IN  /\ (f.before.inProgress.exists
             \/ f.err \notin {"error preparing cache dir",
                               "error creating destination file"}) =>
                Exists(InProgress(f.r.URL))
        /\ Len(Content(InProgress(f.r.URL))) >= Len(f.before.inProgress.bytes)
        /\ Content(InProgress(f.r.URL)) = Kept(f)

\* in p's steps between a call's return and the next call's request the in-progress
\* file stays as it is, and the request carries Range: bytes=<its length>- (no Range header when
\* the file is empty)
ResumesFrom(p) ==
    /\ (/\ frame'[p] # frame[p]
        /\ frame[p].pc \in {"return", "idle", "hasCache", "MkdirAll", "OpenFile", "Stat"}) =>
          \A u \in AllURLs :
              /\ Content(InProgress(u))' = Content(InProgress(u))
              /\ Exists(InProgress(u)) => Exists(InProgress(u))'
    /\ (frame[p].pc = "Do" /\ frame'[p].requests = frame[p].requests + 1) =>
          frame'[p].Range =
              IF Len(Content(InProgress(frame[p].r.URL))) > 0
              THEN Len(Content(InProgress(frame[p].r.URL))) ELSE -1

\* C11 as stated: every call that fails for a reason other than checksum validation
\* leaves the in-progress file in place, no shorter than before the call, with the
\* bytes it streamed, and the next call for the URL resumes from that length.
C11_PartialSurvives ==
    [][\A p \in Procs :
        /\ FailedOther(p)' => Survives(p)'
        /\ ResumesFrom(p)]_vars

\* C11, amended: the same for every such call except one answered 416 whose
\* truncation succeeded (that call empties the in-progress file).
C11_PartialSurvivesUnless416 ==
    [][\A p \in Procs :
        /\ (/\ FailedOther(p)
            /\ ~(frame[p].resp.StatusCode = 416
                 /\ frame[p].err = "unexpected status code"))' => Survives(p)'
        /\ ResumesFrom(p)]_vars

\* a resumed transfer failed in mid-stream: the file has grown by what was written
C11_Witness ==
    \E p \in Procs :
        /\ FailedOther(p) /\ frame[p].err = "error writing to file"
        /\ frame[p].before.inProgress.bytes # <<>>
        /\ frame[p].written > 0 /\ frame[p].written < Len(frame[p].resp.Body)
        /\ Len(Content(InProgress(frame[p].r.URL))) > Len(frame[p].before.inProgress.bytes)


\* the files of its cache key that a call running alone leaves when it returns, given
\* what it found, what it was answered and how far it got
AloneOutcome(f) ==
    LET b == f.before
        file == [exists |-> TRUE, bytes |-> Kept(f)]
    IN  IF f.err = "nil"
        THEN IF f.requests = 0 THEN b
             ELSE [committed |-> file, inProgress |-> NoFile, invalid |-> b.invalid]
        ELSE IF f.sumErr \notin {"none", "nil"}
        THEN IF f.quarantined
             THEN [committed |-> b.committed, inProgress |-> NoFile, invalid |-> file]
             ELSE [committed |-> b.committed, inProgress |-> file, invalid |-> b.invalid]
        ELSE IF f.err \in {"error preparing cache dir", "error creating destination file"}
        THEN b
        ELSE IF f.resp.StatusCode = 416 /\ f.err = "unexpected status code"
        THEN [b EXCEPT !.inProgress = [exists |-> TRUE, bytes |-> <<>>]]
        ELSE [b EXCEPT !.inProgress = file]

\* the URL of the call in which q takes its step
Acting(q) == IF frame[q].pc = "idle" THEN frame'[q].r.URL ELSE frame[q].r.URL

\* C12: with two callers of distinct URLs, a step of one caller changes no file of
\* another URL's cache key and no local of the other caller, and when a call returns,
\* the files of its cache key are those it would have left running alone.
C12_Independent ==
    [][\A q \in Procs :
        /\ frame'[q] # frame[q] =>
              /\ \A p \in Procs \ {q} : frame'[p] = frame[p]
              /\ \A u \in AllURLs \ {Acting(q)} : Snapshot(u)' = Snapshot(u)
        /\ Returned(q)' => Snapshot(frame[q].r.URL)' = AloneOutcome(frame[q])']_vars

\* both calls have transferred and committed while the other was under way
C12_Witness ==
    /\ \A p \in Procs : Transferred(p) /\ frame[p].validations = 1
    /\ frame[MainProc].r.URL = U1 /\ CommittedBytes(U1) = Origin(U1)
    /\ \E p \in Procs : frame[p].r.URL = U2 /\ frame[p].resp.StatusCode = 206
    /\ CommittedBytes(U2) = Origin(U2)


\* C13: in a DownloadToGuest call for a URL that does not start with "/", the copy
\* runs only in the step after Download returned success, once, from the committed
\* cache path of the URL (which exists) to the destination, and its result is the
\* call's; when Download returns an error no copy runs and that error is returned.
C13_CopyAfterDownload ==
    [][\A p \in Procs :
        LET f == frame[p]
            g == frame'[p]
        IN  (g.entry = "DownloadToGuest" /\ g.r.URL[1] # "/") =>
                /\ g.cp # f.cp =>
                      /\ f.pc = "cp" /\ Returned(p) /\ f.err = "nil" /\ f.cp = <<>>
                      /\ f.cacheFile = <<"caches", SHA256(f.r.URL)>>
                      /\ Committed(f.r.URL)
                      /\ g.pc = "return"
                      /\ g.cp = <<RunQuiet(f.cacheFile, GuestFile, g.ret)>>
                /\ Failed(p)' =>
                      (g.pc = "return" /\ g.cp = <<>> /\ g.ret = g.err)
                /\ g.pc = "cp" => (g.err = "nil" /\ g.cp = <<>>)]_vars

\* the file was downloaded and committed, then the copy to the guest failed
C13_Witness ==
    \E p \in Procs :
        /\ frame[p].pc = "return" /\ frame[p].entry = "DownloadToGuest"
        /\ frame[p].r.URL = U1 /\ frame[p].requests = 1
        /\ Len(frame[p].cp) = 1 /\ frame[p].ret = "cp failed"
        /\ Committed(U1)


\* p's call has been answered with a status outside [200,300) other than 416, and
\* has acted on it
Refused(p) ==
    /\ frame[p].requests > 0 /\ frame[p].pc \notin {"Do", "status"}
    /\ frame[p].resp # NoResponse
    /\ frame[p].resp.StatusCode < 200 \/ frame[p].resp.StatusCode >= 300
    /\ frame[p].resp.StatusCode # 416

\* C14: a call answered with a status outside [200,300) other than 416 returns the
\* status error, has read and written no byte of the body, and leaves the in-progress
\* file with the bytes it had before the call, and the committed and the quarantine
\* file as they were.
C14_StatusError ==
    \A p \in Procs :
        LET f == frame[p]
        IN  Refused(p) =>
              /\ f.pc = "return" /\ f.err = "unexpected status code" /\ f.ret = f.err
              /\ f.nread = 0 /\ f.written = 0
              /\ Exists(InProgress(f.r.URL))
              /\ Content(InProgress(f.r.URL)) = f.before.inProgress.bytes
              /\ Len(Content(InProgress(f.r.URL))) = f.currentSize
              /\ File(<<"caches", SHA256(f.r.URL)>>) = f.before.committed
              /\ File(Invalid(f.r.URL)) = f.before.invalid

\* a 404 with a body, answered to a call that found partial data and a quarantined file
C14_Witness ==
    \E p \in Procs :
        /\ Refused(p) /\ frame[p].resp.StatusCode = 404
        /\ frame[p].resp.Body # <<>>
        /\ frame[p].before.inProgress.bytes # <<>>
        /\ frame[p].before.invalid.exists


\* C15: within a call, validation starts only from a copy that has reached the end
\* of the body, the commit rename is reached only from such a copy (no checksum
\* reference) or from a validation that passed (checksum reference), and the
\* committed name is created or changed by no step but that rename.
C15_CommitOrder ==
    [][/\ \A p \in Procs :
            LET f == frame[p]
                g == frame'[p]
                eof == f.nread = Len(f.resp.Body) /\ f.written = Len(f.resp.Body)
            IN  /\ (g.pc = "validate" /\ f.pc # "validate") =>
                      (f.pc = "Copy" /\ eof /\ f.r.SHA /\ g.err = "nil")
                /\ (g.pc = "Rename" /\ f.pc # "Rename") =>
                      \/ f.pc = "Copy" /\ eof /\ ~f.r.SHA
                      \/ f.pc = "validate" /\ eof /\ f.r.SHA /\ g.sumErr = "nil"
                /\ Commits(p) =>
                      /\ eof
                      /\ f.validations = (IF f.r.SHA THEN 1 ELSE 0)
                      /\ f.r.SHA => f.sumErr = "nil"
       /\ \A u \in AllURLs :
            File(<<"caches", SHA256(u)>>)' # File(<<"caches", SHA256(u)>>) =>
                \E p \in Procs :
                    /\ Commits(p) /\ frame[p].r.URL = u
                    /\ File(<<"caches", SHA256(u)>>)' = File(InProgress(u))]_vars

\* a call with a checksum reference has streamed a whole body, validated and committed
C15_Witness ==
    \E p \in Procs :
        /\ Transferred(p) /\ frame[p].r.SHA
        /\ frame[p].sumErr = "nil" /\ frame[p].validations = 1
        /\ frame[p].resp.StatusCode = 200 /\ Len(frame[p].resp.Body) > 1
        /\ CommittedBytes(frame[p].r.URL) = frame[p].resp.Body


\* p's call has failed in its checksum validation
FailedValidation(p) ==
    frame[p].pc = "return" /\ frame[p].sumErr \notin {"none", "nil"}

\* C16: after a call failed its checksum validation the in-progress name does not
\* exist; a call that finds no in-progress file has L = 0 and sends no Range header,
\* and when it is answered 2xx, its validation passes and it returns success, the
\* entry is committed with the bytes received.
C16_RetryAfterQuarantine ==
    \A p \in Procs :
        LET f == frame[p]
        IN  /\ FailedValidation(p) => ~Exists(InProgress(f.r.URL))
            /\ (f.pc \notin {"idle", "hasCache"} /\ ~f.before.inProgress.exists) =>
                  /\ f.currentSize = 0 /\ f.prior = <<>>
                  /\ f.requests > 0 => f.Range = -1
                  /\ (Transferred(p) /\ f.sumErr = "nil") =>
                        (Committed(f.r.URL) /\ CommittedBytes(f.r.URL) = f.resp.Body)


\* p acts on a 416 in this step
Answered416(p) ==
    /\ frame[p].pc = "status" /\ frame[p].resp.StatusCode = 416
    /\ frame'[p] # frame[p]

\* ... and its call ends there, with no byte of the body read or written and the URL
\* not committed
Ends416(p) ==
    /\ Failed(p)' /\ frame'[p].pc = "return" /\ frame'[p].ret = frame'[p].err
    /\ frame'[p].nread = 0 /\ frame'[p].written = 0 /\ frame'[p].requests = 1
    /\ ~Committed(frame[p].r.URL)'

\* C17 as stated: a call answered 416 always truncates the in-progress file and
\* returns 'unexpected status code', never streaming the body, never committing.
C17_Always416Error ==
    [][\A p \in Procs :
        Answered416(p) =>
            /\ Ends416(p)
            /\ frame'[p].err = "unexpected status code"
            /\ Content(InProgress(frame[p].r.URL))' = <<>>]_vars

\* C17, amended: a call answered 416 never streams the body and never commits; it
\* returns 'unexpected status code' with the in-progress file truncated, or, when the
\* truncation fails, 'error truncating file' with every file as it was.
C17_416EndsCall ==
    [][\A p \in Procs :
        Answered416(p) =>
            /\ Ends416(p)
            /\ \/ /\ frame'[p].err = "unexpected status code"
                  /\ Content(InProgress(frame[p].r.URL))' = <<>>
                  /\ Exists(InProgress(frame[p].r.URL))'
               \/ /\ frame'[p].err = "error truncating file"
                  /\ UNCHANGED <<fs, data>>]_vars

\* a call with a checksum reference was answered 416: its partial data is gone,
\* nothing was validated and nothing is committed
C17_Witness ==
    \E p \in Procs :
        /\ Failed(p) /\ frame[p].resp.StatusCode = 416
        /\ frame[p].err = "unexpected status code"
        /\ frame[p].r.SHA /\ frame[p].validations = 0
        /\ frame[p].before.inProgress.bytes # <<>>
        /\ Content(InProgress(frame[p].r.URL)) = <<>>
        /\ ~Committed(frame[p].r.URL)


\* C19: when the transfer starts from an in-progress file of L > 0 bytes and the
\* response declares its length, the total given to the progress meter is that
\* content length plus L for a 206 and the content length alone for any other 2xx.
C19_ProgressTotal ==
    \A p \in Procs :
        LET f == frame[p]
        IN  (f.pc = "Copy" /\ f.currentSize > 0 /\ f.resp.ContentLength >= 0) =>
                f.progress.Total =
                    IF f.resp.StatusCode = 206
                    THEN f.resp.ContentLength + f.currentSize
                    ELSE f.resp.ContentLength


\* C20: while a call streams a response that declares no content length, every
\* progress line it has put on the terminal carries a blank percentage, whatever the
\* length of the in-progress file it found.
C20_UnknownLengthBlank ==
    \A p \in Procs :
        (frame[p].resp.ContentLength = -1 /\ frame[p].progress.out # <<>>) =>
            frame[p].progress.out[1] = <<>>


\* the bytes p has had counted: those of its calls that returned, and those of a
\* call that has stored the counter and not yet returned
Counted(p) == writer[p].sum + (IF writer[p].pc = "Report" THEN writer[p].n ELSE 0)

RECURSIVE SumCounted(_)
SumCounted(ps) ==
    IF ps = {} THEN 0
    ELSE LET p == CHOOSE q \in ps : TRUE IN Counted(p) + SumCounted(ps \ {p})

\* C18: with two goroutines writing to one Progress in any interleaving, Current is
\* the offset it started from plus the lengths of all chunks counted, whether their
\* writes reported or not, and every Write returns its chunk's length and no error.
C18_CounterExact ==
    /\ meter.p.Current = meter.start + SumCounted(Procs)
    /\ \A p \in Procs :
          writer[p].ret # <<>> =>
              (writer[p].ret.n = writer[p].n /\ writer[p].ret.err = "nil")

\* both goroutines have written chunks to a Progress that started at a positive
\* offset, the line on the terminal is older than the counter (a write was counted
\* and not reported), and a write is waiting for the mutex the other holds
C18_Witness ==
    \E p \in Procs, q \in Procs :
        /\ p # q
        /\ writer[p].pc = "Lock" /\ writer[q].pc = "Load"
        /\ writer[p].n > 0 /\ writer[q].n > 0
        /\ writer[p].sum > 0 /\ writer[q].sum > 0
        /\ meter.start > 0 /\ meter.p.Total > 0
        /\ meter.p.out # <<>>
        /\ meter.p.out[1] # Sprintf2f(meter.p.Current, meter.p.Total)

=============================================================================
